---- MODULE Spec2Model ----
(***************************************************************************)
(* The AT&T (ORL) face database accessor: a Database object holding the    *)
(* fixed partition sets, and the query operations that map selectors       *)
(* (groups, purposes, model ids) to File objects and paths.                *)
(*                                                                         *)
(* The state is the Database instance (db), the call whose result the      *)
(* caller holds (call) and what that call returned or raised (ret).  The   *)
(* calls are synchronous: the caller makes one call, holds its result,     *)
(* drops it and makes the next call.                                       *)
(*                                                                         *)
(* Python values are represented as follows:                               *)
(*   - an argument is a record [k |-> kind, v |-> value] with kind one of  *)
(*     "none" (None), "str", "int" (a scalar) or "list";                   *)
(*   - a selector label ('world', 'enrol', ...) is a TLA+ string;          *)
(*   - a path is a sequence of one-character strings, so that str(), '+',  *)
(*     os.path.join and parsing are computed and not assumed;              *)
(*   - a Python set is a TLA+ set, iterated in ascending order (the        *)
(*     formulas below compare results as collections, never by position);  *)
(*   - a result is [status |-> "ok" or the exception's name, type |-> the   *)
(*     Python type of the value, val |-> the value].                       *)
(***************************************************************************)
EXTENDS Integers, Sequences, FiniteSets, TLC

VARIABLES db, call, ret

vars == <<db, call, ret>>

-----------------------------------------------------------------------------
(* Bounds of the explored inputs *)

\* longest list of labels given as groups or purposes
MaxSel == 2
\* longest list of ids given as model_ids (beyond the singletons)
MaxIds == 2
\* how far below 1 and above 400 the file ids given to the id functions go
IdMargin == 1

-----------------------------------------------------------------------------
(* Python values *)

None == [k |-> "none", v |-> 0]
PyStr(s) == [k |-> "str", v |-> s]
PyInt(i) == [k |-> "int", v |-> i]
PyList(l) == [k |-> "list", v |-> l]

\* Python's truth value of an argument: None, '', 0 and [] are false
Falsy(l) ==
  \/ l.k = "none"
  \/ l.k = "str" /\ l.v = ""
  \/ l.k = "int" /\ l.v = 0
  \/ l.k = "list" /\ l.v = <<>>

Range(s) == {s[i] : i \in 1..Len(s)}

Min(S) == CHOOSE x \in S : \A y \in S : x <= y

RECURSIVE SetToSeq(_)
\* iteration over a set, and sorted(): the elements in ascending order
SetToSeq(S) == IF S = {} THEN <<>> ELSE <<Min(S)>> \o SetToSeq(S \ {Min(S)})

\* all sequences over S of length lo..hi
SeqsOf(S, lo, hi) == UNION {[1..n -> S] : n \in lo..hi}

\* a result: the returned value with its Python type, or the exception raised
Ok(t, v) == [status |-> "ok", type |-> t, val |-> v]
OkList(v) == Ok("list", v)
OkInt(v) == Ok("int", v)
OkFile(v) == Ok("File", v)
OkDict(v) == Ok("dict", v)
Raise(e) == [status |-> e, type |-> "exception", val |-> <<>>]
NoResult == [status |-> "none", type |-> "none", val |-> <<>>]

-----------------------------------------------------------------------------
(* Database.__init__ *)

m_groups == <<"world", "dev">>
m_purposes == <<"enrol", "probe">>

NewDatabase ==
  [m_groups |-> m_groups,
   m_purposes |-> m_purposes,
   m_client_ids |-> 1..40,
   m_files |-> 1..10,
   m_training_clients |-> {1,2,5,6,10,11,12,14,16,17,20,21,24,26,27,29,33,34,36,39},
   m_enrol_files |-> {2,4,5,7,9}]

-----------------------------------------------------------------------------
(* Database.__check_validity__: the checked list, or the RuntimeError *)

\* __check_validity__ taking the default for None only ("if l is None"):
\* an empty list is returned as it is and the scalar 0 is checked
check_validity_NoneOnly(l, valid, default) ==
  IF l.k = "none" THEN OkList(default)
  ELSE LET lst == IF l.k \in {"str", "int"} THEN <<l.v>> ELSE l.v
       IN IF \E i \in 1..Len(lst) : lst[i] \notin Range(valid)
          THEN Raise("RuntimeError")
          ELSE OkList(lst)

\* valid and default are sequences (a tuple, or the set's elements in order)
check_validity(l, valid, default) ==
  IF Falsy(l) THEN OkList(default)
  ELSE LET lst == IF l.k \in {"str", "int"} THEN <<l.v>> ELSE l.v
       IN IF \E i \in 1..Len(lst) : lst[i] \notin Range(valid)
          THEN Raise("RuntimeError")
          ELSE OkList(lst)

-----------------------------------------------------------------------------
(* Database.clients / client_ids / models / model_ids (query.py) *)

\* 'dev' collecting every client id, the training clients not taken out
GroupIds_DevIsAll(d, groups) ==
  (IF "world" \in Range(groups) THEN d.m_training_clients ELSE {})
  \cup
  (IF "dev" \in Range(groups) THEN d.m_client_ids ELSE {})

\* the ids collected from the checked groups
GroupIds(d, groups) ==
  (IF "world" \in Range(groups) THEN d.m_training_clients ELSE {})
  \cup
  (IF "dev" \in Range(groups) THEN d.m_client_ids \ d.m_training_clients ELSE {})

Client(id) == [id |-> id]

clients(d, groups) ==
  LET g == check_validity(groups, d.m_groups, d.m_groups)
  IN IF g.status # "ok" THEN g
     ELSE LET ids == SetToSeq(GroupIds(d, g.val))
          IN OkList([i \in 1..Len(ids) |-> Client(ids[i])])

\* client_ids returning the ids without sorting them (here: descending)
client_ids_Unsorted(d, groups) ==
  LET g == check_validity(groups, d.m_groups, d.m_groups)
  IN IF g.status # "ok" THEN g
     ELSE LET ids == SetToSeq(GroupIds(d, g.val))
          IN OkList([i \in 1..Len(ids) |-> ids[Len(ids) + 1 - i]])

client_ids(d, groups) ==
  LET g == check_validity(groups, d.m_groups, d.m_groups)
  IN IF g.status # "ok" THEN g
     ELSE OkList(SetToSeq(GroupIds(d, g.val)))

models(d, groups) == clients(d, groups)

model_ids(d, groups) == client_ids(d, groups)

-----------------------------------------------------------------------------
(* Strings: str(), os.path.join, and the File of models.py *)

Digits == <<"0", "1", "2", "3", "4", "5", "6", "7", "8", "9">>

RECURSIVE StrNat(_)
StrNat(n) == IF n < 10 THEN <<Digits[n + 1]>>
             ELSE StrNat(n \div 10) \o <<Digits[(n % 10) + 1]>>

\* str(n) of an int
Str(n) == IF n < 0 THEN <<"-">> \o StrNat(0 - n) ELSE StrNat(n)

\* os.path.join(a, b) on a POSIX system
PathJoin(a, b) ==
  IF b # <<>> /\ Head(b) = "/" THEN b
  ELSE IF a = <<>> \/ a[Len(a)] = "/" THEN a \o b
  ELSE a \o <<"/">> \o b

\* File.file_count_per_id
file_count_per_id == 10

\* File.__init__ with the file id computed from client_id instead of client_id - 1
File_IdFromClientId(client_id, client_file_id) ==
  IF client_file_id \notin 1..file_count_per_id THEN Raise("AssertionError")
  ELSE OkFile([id |-> client_id * file_count_per_id + client_file_id,
           client_id |-> client_id,
           path |-> PathJoin(<<"s">> \o Str(client_id), Str(client_file_id))])

\* File.__init__ with the file id computed with one file less per client
File_ShortStride(client_id, client_file_id) ==
  IF client_file_id \notin 1..file_count_per_id THEN Raise("AssertionError")
  ELSE OkFile([id |-> (client_id - 1) * (file_count_per_id - 1) + client_file_id,
           client_id |-> client_id,
           path |-> PathJoin(<<"s">> \o Str(client_id), Str(client_file_id))])

\* File.__init__ asserting the range of the client id as well
File_ClientChecked(client_id, client_file_id) ==
  IF client_file_id \notin 1..file_count_per_id \/ client_id \notin 1..40
  THEN Raise("AssertionError")
  ELSE OkFile([id |-> (client_id - 1) * file_count_per_id + client_file_id,
           client_id |-> client_id,
           path |-> PathJoin(<<"s">> \o Str(client_id), Str(client_file_id))])

\* File.__init__: the File object, or the AssertionError of its assert
File(client_id, client_file_id) ==
  IF client_file_id \notin 1..file_count_per_id THEN Raise("AssertionError")
  ELSE OkFile([id |-> (client_id - 1) * file_count_per_id + client_file_id,
           client_id |-> client_id,
           path |-> PathJoin(<<"s">> \o Str(client_id), Str(client_file_id))])

\* File.make_path; directory and extension are None or a string
make_path(f, directory, extension) ==
  LET dir == IF directory.k = "none" \/ directory.v = <<>> THEN <<>> ELSE directory.v
      ext == IF extension.k = "none" \/ extension.v = <<>> THEN <<>> ELSE extension.v
  IN PathJoin(dir, f.path \o ext)

-----------------------------------------------------------------------------
(* Database.get_client_id_from_file_id, get_client_id_from_model_id (query.py) *)

\* Python 2's / on ints is the floor division
get_client_id_from_file_id(d, file_id) ==
  OkInt(((file_id - 1) \div Cardinality(d.m_files)) + 1)

get_client_id_from_model_id(d, model_id) == OkInt(model_id)

-----------------------------------------------------------------------------
(* Database.objects (query.py) *)

\* the Files of "for client_id in cs: for file_id in fs: File(client_id, file_id)"
FilesOf(cs, fs) ==
  [i \in 1..(Len(cs) * Len(fs)) |->
     File(cs[((i - 1) \div Len(fs)) + 1], fs[((i - 1) % Len(fs)) + 1])]

\* a list of constructions: the list of their values, or the first error
Collect(rs) ==
  IF \E i \in 1..Len(rs) : rs[i].status # "ok"
  THEN Raise(rs[CHOOSE i \in 1..Len(rs) :
                  /\ rs[i].status # "ok"
                  /\ \A j \in 1..(i - 1) : rs[j].status = "ok"].status)
  ELSE OkList([i \in 1..Len(rs) |-> rs[i].val])

\* the purposes checked when 'world' is among the groups instead of 'dev'
EffectivePurposes_WorldChecked(d, groups, purposes_arg) ==
  LET VALID_PURPOSES == d.m_purposes
  IN IF "world" \in Range(groups)
     THEN check_validity(purposes_arg, VALID_PURPOSES, VALID_PURPOSES)
     ELSE OkList(VALID_PURPOSES)

\* the purposes checked whatever the groups are
EffectivePurposes_AlwaysChecked(d, groups, purposes_arg) ==
  LET VALID_PURPOSES == d.m_purposes
  IN check_validity(purposes_arg, VALID_PURPOSES, VALID_PURPOSES)

\* the purposes after the check: checked when 'dev' is among the groups,
\* replaced by both purposes otherwise
EffectivePurposes(d, groups, purposes_arg) ==
  LET VALID_PURPOSES == d.m_purposes
  IN IF "dev" \in Range(groups)
     THEN check_validity(purposes_arg, VALID_PURPOSES, VALID_PURPOSES)
     ELSE OkList(VALID_PURPOSES)

\* the clients whose enrol files are collected: the intersected ids
EnrolClients(d, groups, ids) == SetToSeq(ids)

\* the probe loop running over the intersected ids, like the enrol loop
ProbeClients_Intersected(d, groups, ids) == SetToSeq(ids)

\* the clients whose probe files are collected: all clients of the given groups
ProbeClients(d, groups, ids) == client_ids(d, PyList(groups)).val

\* objects taking the probe files from all files, the enrol files not taken out
objects_ProbeOverAllFiles(d, model_ids_arg, groups_arg, purposes_arg) ==
  LET VALID_GROUPS == d.m_groups
      groups == check_validity(groups_arg, VALID_GROUPS, VALID_GROUPS)
  IN IF groups.status # "ok" THEN groups
  ELSE
  LET ids0 == Range(client_ids(d, PyList(groups.val)).val)
      VALID_IDS == SetToSeq(d.m_client_ids)
      mids == check_validity(model_ids_arg, VALID_IDS, VALID_IDS)
  IN IF mids.status # "ok" THEN mids
  ELSE
  LET ids == ids0 \cap Range(mids.val)
      purposes == EffectivePurposes(d, groups.val, purposes_arg)
  IN IF purposes.status # "ok" THEN purposes
  ELSE
  LET enrol == IF "enrol" \in Range(purposes.val)
               THEN FilesOf(EnrolClients(d, groups.val, ids),
                            SetToSeq(d.m_enrol_files))
               ELSE <<>>
      file_ids == d.m_files
      probe == IF "probe" \in Range(purposes.val)
               THEN FilesOf(ProbeClients(d, groups.val, ids), SetToSeq(file_ids))
               ELSE <<>>
  IN Collect(enrol \o probe)

objects(d, model_ids_arg, groups_arg, purposes_arg) ==
  LET VALID_GROUPS == d.m_groups
      groups == check_validity(groups_arg, VALID_GROUPS, VALID_GROUPS)
  IN IF groups.status # "ok" THEN groups
  ELSE
  LET ids0 == Range(client_ids(d, PyList(groups.val)).val)
      VALID_IDS == SetToSeq(d.m_client_ids)
      mids == check_validity(model_ids_arg, VALID_IDS, VALID_IDS)
  IN IF mids.status # "ok" THEN mids
  ELSE
  LET ids == ids0 \cap Range(mids.val)
      purposes == EffectivePurposes(d, groups.val, purposes_arg)
  IN IF purposes.status # "ok" THEN purposes
  ELSE
  LET enrol == IF "enrol" \in Range(purposes.val)
               THEN FilesOf(EnrolClients(d, groups.val, ids),
                            SetToSeq(d.m_enrol_files))
               ELSE <<>>
      file_ids == d.m_files \ d.m_enrol_files
      probe == IF "probe" \in Range(purposes.val)
               THEN FilesOf(ProbeClients(d, groups.val, ids), SetToSeq(file_ids))
               ELSE <<>>
  IN Collect(enrol \o probe)

-----------------------------------------------------------------------------
(* The former interface of the package (__init__.py): ids instead of       *)
(* Client objects, and dictionaries keyed by file id instead of File lists *)

\* __make_path__ putting the directory in front of the stem without a separator
legacy_make_path_Concat(client_id, file_id, directory, extension) ==
  LET stem == PathJoin(<<"s">> \o Str(client_id), Str(file_id))
      ext == IF extension.k = "none" \/ extension.v = <<>> THEN <<>> ELSE extension.v
  IN IF directory.k # "none" /\ directory.v # <<>>
     THEN directory.v \o stem \o ext
     ELSE stem \o ext

\* Database.__make_path__; directory and extension are None or a string
legacy_make_path(client_id, file_id, directory, extension) ==
  LET stem == PathJoin(<<"s">> \o Str(client_id), Str(file_id))
      ext == IF extension.k = "none" \/ extension.v = <<>> THEN <<>> ELSE extension.v
  IN IF directory.k # "none" /\ directory.v # <<>>
     THEN PathJoin(directory.v, stem \o ext)
     ELSE stem \o ext

legacy_clients(d, groups) ==
  LET g == check_validity(groups, d.m_groups, d.m_groups)
  IN IF g.status # "ok" THEN g
     ELSE OkList(SetToSeq(GroupIds(d, g.val)))

legacy_models(d, groups) ==
  LET g == check_validity(groups, d.m_groups, d.m_groups)
  IN IF g.status # "ok" THEN g
     ELSE OkList(SetToSeq(GroupIds(d, g.val)))

legacy_get_client_id_from_file_id(d, file_id) ==
  OkInt(((file_id - 1) \div Cardinality(d.m_files)) + 1)

\* the dictionary left by the assignments retval[es[i].key] = es[i].val, in order
DictOf(es) ==
  [k \in {es[i].key : i \in 1..Len(es)} |->
     es[CHOOSE i \in 1..Len(es) :
          /\ es[i].key = k
          /\ \A j \in (i + 1)..Len(es) : es[j].key # k].val]

\* the assignments of "for client_id in cs: for file_id in fs: retval[..] = (..)"
\* real_id is what the fourth field holds: <<TRUE, id>> for that id, <<FALSE>> for client_id
EntriesOf(d, cs, fs, directory, extension, real_id) ==
  [i \in 1..(Len(cs) * Len(fs)) |->
     LET client_id == cs[((i - 1) \div Len(fs)) + 1]
         file_id == fs[((i - 1) % Len(fs)) + 1]
         key == (client_id - 1) * Cardinality(d.m_files) + file_id
     IN [key |-> key,
         val |-> <<legacy_make_path(client_id, file_id, directory, extension),
                   client_id,
                   client_id,
                   IF real_id[1] THEN real_id[2] ELSE client_id,
                   key>>]]

legacy_objects(d, directory, extension, model_ids_arg, groups_arg, purposes_arg) ==
  LET VALID_GROUPS == d.m_groups
      groups == check_validity(groups_arg, VALID_GROUPS, VALID_GROUPS)
  IN IF groups.status # "ok" THEN groups
  ELSE
  LET ids0 == Range(legacy_clients(d, PyList(groups.val)).val)
      VALID_IDS == SetToSeq(d.m_client_ids)
      mids == check_validity(model_ids_arg, VALID_IDS, VALID_IDS)
  IN IF mids.status # "ok" THEN mids
  ELSE
  LET ids == ids0 \cap Range(mids.val)
      VALID_PURPOSES == d.m_purposes
      purposes == IF "dev" \in Range(groups.val)
                  THEN check_validity(purposes_arg, VALID_PURPOSES, VALID_PURPOSES)
                  ELSE OkList(VALID_PURPOSES)
  IN IF purposes.status # "ok" THEN purposes
  ELSE
  LET enrol == IF "enrol" \in Range(purposes.val)
               THEN EntriesOf(d, SetToSeq(ids), SetToSeq(d.m_enrol_files),
                              directory, extension, <<FALSE>>)
               ELSE <<>>
      file_ids == d.m_files \ d.m_enrol_files
      probe == IF "probe" \in Range(purposes.val)
               THEN EntriesOf(d, legacy_clients(d, PyList(groups.val)).val,
                              SetToSeq(file_ids), directory, extension,
                              IF Len(mids.val) = 1 THEN <<TRUE, mids.val[1]>>
                                                   ELSE <<FALSE>>)
               ELSE <<>>
  IN OkDict(DictOf(enrol \o probe))

legacy_files(d, directory, extension, model_ids_arg, groups_arg, purposes_arg) ==
  LET o == legacy_objects(d, directory, extension, model_ids_arg, groups_arg,
                          purposes_arg)
  IN IF o.status # "ok" THEN o
     ELSE OkDict([k \in DOMAIN o.val |-> o.val[k][1]])

-----------------------------------------------------------------------------
(* The checkfiles command (driver.py) *)

OkExit(v) == Ok("exit", v)

\* the keys of a dictionary whose path is, or is not, in the file system fs
\* (os.path.exists)
Existing(r, fs) == {id \in DOMAIN r : r[id] \in fs}

RECURSIVE InOrder(_, _, _)
\* iteration over a set of ids of lo..hi: its elements in ascending order
InOrder(S, lo, hi) ==
  IF lo > hi THEN <<>>
  ELSE IF lo = hi THEN (IF lo \in S THEN <<lo>> ELSE <<>>)
  ELSE InOrder(S, lo, (lo + hi) \div 2) \o InOrder(S, ((lo + hi) \div 2) + 1, hi)

\* what is written: one line for each file not found, then the line of the
\* counts, when there is a file not found
Report(bad, total, directory) ==
  LET ids == InOrder(DOMAIN bad, 1, total)
  IN IF DOMAIN bad = {} THEN <<>>
     ELSE [i \in 1..Len(ids) |->
             [text |-> "Cannot find file", path |-> bad[ids[i]],
              count |-> 0, total |-> 0]]
          \o <<[text |-> "files were not found at", path |-> directory.v,
                count |-> Cardinality(DOMAIN bad), total |-> total]>>

\* checkfiles returning 1 when a file is not found
checkfiles_FailsOnMissing(fs, directory, extension) ==
  LET r == legacy_files(NewDatabase, directory, extension, None, None, None)
  IN IF r.status # "ok" THEN r
     ELSE LET found == Existing(r.val, fs)
              good == [id \in found |-> r.val[id]]
              bad == [id \in (DOMAIN r.val) \ found |-> r.val[id]]
          IN OkExit([code |-> IF DOMAIN bad = {} THEN 0 ELSE 1,
                     good |-> good, bad |-> bad,
                     output |-> Report(bad, Cardinality(DOMAIN r.val), directory)])

\* checkfiles: the exit status, with the two dictionaries it has filled and
\* the lines it has written (to stdout, or to null() in a self test)
checkfiles(fs, directory, extension) ==
  LET r == legacy_files(NewDatabase, directory, extension, None, None, None)
  IN IF r.status # "ok" THEN r
     ELSE LET found == Existing(r.val, fs)
              good == [id \in found |-> r.val[id]]
              bad == [id \in (DOMAIN r.val) \ found |-> r.val[id]]
          IN OkExit([code |-> 0, good |-> good, bad |-> bad,
                     output |-> Report(bad, Cardinality(DOMAIN r.val), directory)])

-----------------------------------------------------------------------------
(* The inverse encodings of the later interface (File._from_file_id and    *)
(* File._from_path, called by get_client_id_from_file_id, paths and        *)
(* reverse of bob/db/atnt/query.py)                                        *)

\* File._from_file_id: the File of a global file id
split_global_id(file_id) ==
  IF file_id \notin 1..400 THEN Raise("InvalidArgument")
  ELSE File(((file_id - 1) \div file_count_per_id) + 1,
            ((file_id - 1) % file_count_per_id) + 1)

\* get_client_id_from_file_id of bob/db/atnt/query.py
client_from_file(file_id) ==
  LET f == split_global_id(file_id)
  IN IF f.status # "ok" THEN f ELSE OkInt(f.val.client_id)

IsDigits(cs) == cs # <<>> /\ \A i \in 1..Len(cs) : \E n \in 1..10 : Digits[n] = cs[i]

DigitValue(c) == (CHOOSE n \in 1..10 : Digits[n] = c) - 1

RECURSIVE ParseNat(_)
\* int(cs) of a string of digits
ParseNat(cs) ==
  IF Len(cs) = 1 THEN DigitValue(cs[1])
  ELSE ParseNat(SubSeq(cs, 1, Len(cs) - 1)) * 10 + DigitValue(cs[Len(cs)])

\* File._from_path: the File of a stem 's<int>/<int>'
parse_path_stem(path) ==
  LET slashes == {i \in 1..Len(path) : path[i] = "/"}
  IN IF Cardinality(slashes) # 1 THEN Raise("InvalidArgument")
     ELSE LET i == CHOOSE j \in slashes : TRUE
              dir == SubSeq(path, 1, i - 1)
              name == SubSeq(path, i + 1, Len(path))
          IN IF \/ dir = <<>>
                \/ Head(dir) # "s"
                \/ ~IsDigits(Tail(dir))
                \/ ~IsDigits(name)
             THEN Raise("InvalidArgument")
             ELSE LET f == File(ParseNat(Tail(dir)), ParseNat(name))
                  IN IF f.status # "ok" THEN Raise("InvalidArgument") ELSE f

\* Database.reverse: the Files of the paths, or the error of the first bad path
reverse(paths) ==
  Collect([i \in 1..Len(paths) |-> parse_path_stem(paths[i])])

-----------------------------------------------------------------------------
(* The arguments the calls are made with *)

\* the labels given alone: the labels of the code, the names of the
\* documentation and an unknown label
GroupLabels == {"world", "dev", "training", "evaluation", "bogus"}
PurposeLabels == {"enrol", "enroll", "probe", "bogus"}
\* the labels the lists are made of
ListGroupLabels == {"world", "dev", "bogus"}
ListPurposeLabels == {"enrol", "probe", "bogus"}
\* ids given alone or as a one-element list: every client id and its neighbours
SingleIds == 0..41
\* ids the longer lists are made of: a training client, an evaluation
\* client and an id that is no client
ListIds == {1, 3, 41}

Strs(S) == {PyStr(s) : s \in S}
Ints(S) == {PyInt(i) : i \in S}
Lists(S, lo, hi) == {PyList(l) : l \in SeqsOf(S, lo, hi)}

\* groups for clients, client_ids, models, model_ids
GroupArgs == {None} \cup Strs(GroupLabels) \cup Lists(ListGroupLabels, 0, MaxSel)

\* the selector combinations (model_ids, groups, purposes) of an objects call:
\* every combination of selectors that are None, one value or a one-element
\* list of ids; and, over the smaller alphabets, every combination in which
\* at most one selector is a list of two or more
ObjectsArgs ==
  LET G0 == {None} \cup Strs(GroupLabels)
      P0 == {None} \cup Strs(PurposeLabels)
      M0 == {None} \cup Ints(SingleIds) \cup Lists(SingleIds, 1, 1)
      G1 == {None} \cup Strs(ListGroupLabels) \cup Lists(ListGroupLabels, 0, 1)
      P1 == {None} \cup Strs(ListPurposeLabels) \cup Lists(ListPurposeLabels, 0, 1)
      M1 == {None} \cup Ints(ListIds) \cup Lists(ListIds, 0, 1)
  IN (M0 \X G0 \X P0)
     \cup (M1 \X G1 \X P1)
     \cup (Lists(ListIds, 2, MaxIds) \X G1 \X P1)
     \cup (M1 \X Lists(ListGroupLabels, 2, MaxSel) \X P1)
     \cup (M1 \X G1 \X Lists(ListPurposeLabels, 2, MaxSel))

\* directory and extension of the former interface
DirArgs == {None, PyStr(<<>>), PyStr(<<"d">>), PyStr(<<"d", "/">>)}
ExtArgs == {None, PyStr(<<>>), PyStr(<<".", "p", "g", "m">>)}

\* the calls of the former objects: the selector combinations without
\* directory and extension, and every directory and extension with the
\* selectors that are None or one label or id of the smaller alphabets
LegacyArgs ==
  ({<<None, None>>} \X ObjectsArgs)
  \cup ((DirArgs \X ExtArgs)
        \X (({None} \cup Ints(ListIds) \cup Lists(ListIds, 1, 1))
            \X ({None} \cup Strs(ListGroupLabels))
            \X ({None} \cup Strs(ListPurposeLabels))))

\* client ids and per-client file ids given to File
FileClientIds == (1 - IdMargin)..(40 + IdMargin)
FileFileIds == (1 - IdMargin)..(10 + IdMargin)
\* global file ids given to the id functions
GlobalIds == (1 - IdMargin)..(400 + IdMargin)

\* paths given to reverse: the stem of every pair, and strings that are no stem
StemOf(c, f) == PathJoin(<<"s">> \o Str(c), Str(f))
BadPaths == {<<>>, <<"s">>, <<"s", "3">>, <<"3", "/", "2">>, <<"s", "/", "2">>,
             <<"s", "3", "/">>, <<"s", "3", "/", "x">>, <<"s", "3", "/", "2", "/", "1">>}
PathArgs == {StemOf(c, f) : c \in 0..(40 + IdMargin), f \in 0..(10 + IdMargin)}
            \cup BadPaths

\* the file systems checkfiles runs on: the images are stored as
\* d/s<client>/<file>.pgm, all of them but the ones of a set of global ids
MissingPool == {1, 22, 400}
MissingSets == (SUBSET MissingPool) \cup {1..400}
FileSystem(missing) ==
  {<<"d", "/">> \o PathJoin(<<"s">> \o Str(c), Str(f)) \o <<".", "p", "g", "m">> :
     <<c, f>> \in {p \in (1..40) \X (1..10) : (p[1] - 1) * 10 + p[2] \notin missing}}
\* -d is required and -e is '.pgm' unless given: both are strings
CheckDirArgs == DirArgs \ {None}
CheckExtArgs == ExtArgs \ {None}

-----------------------------------------------------------------------------
(* The calls *)

\* no call's result is held
Idle == call.op = "none"

Init ==
  /\ db = NewDatabase
  /\ call = [op |-> "none"]
  /\ ret = NoResult

\* the caller drops the result it holds
Drop ==
  /\ ~Idle
  /\ call' = [op |-> "none"]
  /\ ret' = NoResult
  /\ UNCHANGED db

CallClients ==
  \E g \in GroupArgs :
    /\ Idle
    /\ call' = [op |-> "clients", groups |-> g]
    /\ ret' = clients(db, g)
    /\ UNCHANGED db

CallClientIds ==
  \E g \in GroupArgs :
    /\ Idle
    /\ call' = [op |-> "client_ids", groups |-> g]
    /\ ret' = client_ids(db, g)
    /\ UNCHANGED db

CallModels ==
  \E g \in GroupArgs :
    /\ Idle
    /\ call' = [op |-> "models", groups |-> g]
    /\ ret' = models(db, g)
    /\ UNCHANGED db

CallModelIds ==
  \E g \in GroupArgs :
    /\ Idle
    /\ call' = [op |-> "model_ids", groups |-> g]
    /\ ret' = model_ids(db, g)
    /\ UNCHANGED db

CallGetClientIdFromFileId ==
  \E file_id \in GlobalIds :
    /\ Idle
    /\ call' = [op |-> "get_client_id_from_file_id", file_id |-> file_id]
    /\ ret' = get_client_id_from_file_id(db, file_id)
    /\ UNCHANGED db

\* objects keeping the intersection with model_ids in the instance
\* (self.m_client_ids &= set(model_ids))
CallObjects_KeepsModelIds ==
  \E x \in ObjectsArgs :
    /\ Idle
    /\ call' = [op |-> "objects", model_ids |-> x[1], groups |-> x[2],
                purposes |-> x[3]]
    /\ ret' = objects(db, x[1], x[2], x[3])
    /\ db' = IF ret'.status = "ok" /\ ~Falsy(x[1])
             THEN [db EXCEPT !.m_client_ids = @ \cap Range(check_validity(x[1],
                                 SetToSeq(@), SetToSeq(@)).val)]
             ELSE db

CallObjects ==
  \E x \in ObjectsArgs :
    /\ Idle
    /\ call' = [op |-> "objects", model_ids |-> x[1], groups |-> x[2],
                purposes |-> x[3]]
    /\ ret' = objects(db, x[1], x[2], x[3])
    /\ UNCHANGED db

CallFile ==
  \E client_id \in FileClientIds, client_file_id \in FileFileIds :
    /\ Idle
    /\ call' = [op |-> "File", client_id |-> client_id,
                client_file_id |-> client_file_id]
    /\ ret' = File(client_id, client_file_id)
    /\ UNCHANGED db

CallLegacyClients ==
  \E g \in GroupArgs :
    /\ Idle
    /\ call' = [op |-> "legacy_clients", groups |-> g]
    /\ ret' = legacy_clients(db, g)
    /\ UNCHANGED db

CallLegacyModels ==
  \E g \in GroupArgs :
    /\ Idle
    /\ call' = [op |-> "legacy_models", groups |-> g]
    /\ ret' = legacy_models(db, g)
    /\ UNCHANGED db

CallLegacyGetClientIdFromFileId ==
  \E file_id \in GlobalIds :
    /\ Idle
    /\ call' = [op |-> "legacy_get_client_id_from_file_id", file_id |-> file_id]
    /\ ret' = legacy_get_client_id_from_file_id(db, file_id)
    /\ UNCHANGED db

CallLegacyObjects ==
  \E x \in LegacyArgs :
    /\ Idle
    /\ call' = [op |-> "legacy_objects", directory |-> x[1][1],
                extension |-> x[1][2], model_ids |-> x[2][1],
                groups |-> x[2][2], purposes |-> x[2][3]]
    /\ ret' = legacy_objects(db, x[1][1], x[1][2], x[2][1], x[2][2], x[2][3])
    /\ UNCHANGED db

CallLegacyFiles ==
  \E x \in LegacyArgs :
    /\ Idle
    /\ call' = [op |-> "legacy_files", directory |-> x[1][1],
                extension |-> x[1][2], model_ids |-> x[2][1],
                groups |-> x[2][2], purposes |-> x[2][3]]
    /\ ret' = legacy_files(db, x[1][1], x[1][2], x[2][1], x[2][2], x[2][3])
    /\ UNCHANGED db

CallSplitGlobalId ==
  \E file_id \in GlobalIds :
    /\ Idle
    /\ call' = [op |-> "split_global_id", file_id |-> file_id]
    /\ ret' = split_global_id(file_id)
    /\ UNCHANGED db

CallClientFromFile ==
  \E file_id \in GlobalIds :
    /\ Idle
    /\ call' = [op |-> "client_from_file", file_id |-> file_id]
    /\ ret' = client_from_file(file_id)
    /\ UNCHANGED db

CallReverse ==
  \E p \in PathArgs :
    /\ Idle
    /\ call' = [op |-> "reverse", paths |-> <<p>>]
    /\ ret' = reverse(<<p>>)
    /\ UNCHANGED db

CallCheckfiles ==
  \E m \in MissingSets, directory \in CheckDirArgs, extension \in CheckExtArgs :
    /\ Idle
    /\ call' = [op |-> "checkfiles", directory |-> directory,
                extension |-> extension, missing |-> m]
    /\ ret' = checkfiles(FileSystem(m), directory, extension)
    /\ UNCHANGED db

Next ==
  \/ Drop
  \/ CallClients
  \/ CallClientIds
  \/ CallModels
  \/ CallModelIds
  \/ CallGetClientIdFromFileId
  \/ CallObjects
  \/ CallFile
  \/ CallLegacyClients
  \/ CallLegacyModels
  \/ CallLegacyGetClientIdFromFileId
  \/ CallLegacyObjects
  \/ CallLegacyFiles
  \/ CallSplitGlobalId
  \/ CallClientFromFile
  \/ CallReverse
  \/ CallCheckfiles

Spec == Init /\ [][Next]_vars

-----------------------------------------------------------------------------
(* The stated properties.  The partition is written out here as the        *)
(* documentation gives it, independently of NewDatabase.                   *)

TrainingClients == {1,2,5,6,10,11,12,14,16,17,20,21,24,26,27,29,33,34,36,39}
EvaluationClients == (1..40) \ TrainingClients
EnrollFiles == {2,4,5,7,9}
ProbeFiles == {1,3,6,8,10}

Omitted(a) == a.k = "none"

\* the argument is the one label or id x, alone or in a list
Only(a, x) ==
  \/ a.k \in {"str", "int"} /\ a.v = x
  \/ a.k = "list" /\ a.v # <<>> /\ Range(a.v) = {x}

\* the values an argument holds
Values(a) ==
  IF a.k = "none" THEN {} ELSE IF a.k = "list" THEN Range(a.v) ELSE {a.v}

\* the results as collections
FileIds(r) == {r.val[i].id : i \in 1..Len(r.val)}
\* the (client id, per-client file id) pairs of a list of Files
Pairs(r) ==
  {<<r.val[i].client_id, r.val[i].id - (r.val[i].client_id - 1) * 10>> :
     i \in 1..Len(r.val)}
NoRepeat(seq) == \A i, j \in 1..Len(seq) : seq[i] = seq[j] => i = j
Ascending(seq) == \A i \in 1..(Len(seq) - 1) : seq[i] < seq[i + 1]

ObjectsCall == call.op = "objects"
LegacyCall == call.op \in {"legacy_objects", "legacy_files"}
IdsCall == call.op \in {"client_ids", "model_ids", "legacy_clients", "legacy_models"}

\* C1: a query with no selectors returns exactly 400 samples, whose global
\* ids are the integers 1..400, each exactly once (the File list of objects,
\* and the dictionary of the former objects and files for any directory and
\* extension).
C1_AllSamples ==
  /\ (ObjectsCall /\ Omitted(call.model_ids) /\ Omitted(call.groups)
        /\ Omitted(call.purposes))
       => /\ ret.status = "ok"
          /\ Len(ret.val) = 400
          /\ FileIds(ret) = 1..400
          /\ NoRepeat([i \in 1..Len(ret.val) |-> ret.val[i].id])
  /\ (LegacyCall /\ Omitted(call.model_ids) /\ Omitted(call.groups)
        /\ Omitted(call.purposes))
       => /\ ret.status = "ok"
          /\ DOMAIN ret.val = 1..400
          /\ Cardinality(DOMAIN ret.val) = 400

C1_Witness ==
  /\ ObjectsCall /\ Omitted(call.model_ids) /\ Omitted(call.groups)
  /\ Omitted(call.purposes)
  /\ ret.status = "ok" /\ Len(ret.val) = 400

\* C2: client_ids for the training group returns the 20 training ids in
\* ascending order, for the evaluation group the other 20 ids of 1..40 in
\* ascending order; the two results are disjoint and their union is 1..40,
\* which is also the result for the default of both groups.
C2_ClientIds ==
  IdsCall =>
    /\ Only(call.groups, "world")
         => /\ ret.status = "ok"
            /\ Len(ret.val) = 20
            /\ Range(ret.val) = TrainingClients
            /\ Ascending(ret.val)
            /\ Range(ret.val) \cap Range(client_ids(db, PyStr("dev")).val) = {}
            /\ Range(ret.val) \cup Range(client_ids(db, PyStr("dev")).val) = 1..40
    /\ Only(call.groups, "dev")
         => /\ ret.status = "ok"
            /\ Len(ret.val) = 20
            /\ Range(ret.val) = (1..40) \ TrainingClients
            /\ Ascending(ret.val)
            /\ Range(ret.val) \cap Range(client_ids(db, PyStr("world")).val) = {}
            /\ Range(ret.val) \cup Range(client_ids(db, PyStr("world")).val) = 1..40
    /\ Omitted(call.groups)
         => /\ ret.status = "ok"
            /\ Len(ret.val) = 40
            /\ Range(ret.val) = 1..40
            /\ Ascending(ret.val)

C2_Witness ==
  /\ call.op = "client_ids" /\ Only(call.groups, "dev")
  /\ ret.status = "ok" /\ Len(ret.val) = 20 /\ ret.val[1] = 3

\* the selectors as the documentation reads them: an omitted or empty
\* selector stands for all values
RequestedGroups == IF Falsy(call.groups) THEN {"world", "dev"} ELSE Values(call.groups)
GroupClients ==
  (IF "world" \in RequestedGroups THEN TrainingClients ELSE {})
  \cup (IF "dev" \in RequestedGroups THEN EvaluationClients ELSE {})
RequestedPurposes ==
  IF "dev" \notin RequestedGroups \/ Falsy(call.purposes)
  THEN {"enrol", "probe"} ELSE Values(call.purposes)
RequestedModels == IF Falsy(call.model_ids) THEN 1..40 ELSE Values(call.model_ids)

\* C3: for the evaluation group alone and no model_ids, the query returns
\* exactly 100 samples for purposes = enroll (the 20 evaluation clients x the
\* 5 enroll files), exactly 100 for purposes = probe (x the 5 probe files)
\* and exactly 200 for both purposes; the enroll and the probe results are
\* disjoint and their union is the result for both purposes.
C3_EvaluationCounts ==
  /\ (ObjectsCall /\ Only(call.groups, "dev") /\ Omitted(call.model_ids)) =>
       /\ Only(call.purposes, "enrol")
            => /\ ret.status = "ok"
               /\ Len(ret.val) = 100
               /\ Pairs(ret) = EvaluationClients \X EnrollFiles
       /\ Only(call.purposes, "probe")
            => /\ ret.status = "ok"
               /\ Len(ret.val) = 100
               /\ Pairs(ret) = EvaluationClients \X ProbeFiles
       /\ (Omitted(call.purposes) \/ Values(call.purposes) = {"enrol", "probe"})
            => /\ ret.status = "ok"
               /\ Len(ret.val) = 200
               /\ Pairs(ret) = EvaluationClients \X (1..10)
               /\ LET e == objects(db, None, call.groups, PyStr("enrol"))
                      p == objects(db, None, call.groups, PyStr("probe"))
                  IN /\ FileIds(e) \cap FileIds(p) = {}
                     /\ FileIds(e) \cup FileIds(p) = FileIds(ret)
  /\ (LegacyCall /\ Only(call.groups, "dev") /\ Omitted(call.model_ids)) =>
       /\ Only(call.purposes, "enrol")
            => /\ ret.status = "ok"
               /\ DOMAIN ret.val = {(c - 1) * 10 + f : c \in EvaluationClients, f \in EnrollFiles}
               /\ Cardinality(DOMAIN ret.val) = 100
       /\ Only(call.purposes, "probe")
            => /\ ret.status = "ok"
               /\ DOMAIN ret.val = {(c - 1) * 10 + f : c \in EvaluationClients, f \in ProbeFiles}
               /\ Cardinality(DOMAIN ret.val) = 100
       /\ (Omitted(call.purposes) \/ Values(call.purposes) = {"enrol", "probe"})
            => /\ ret.status = "ok"
               /\ DOMAIN ret.val = {(c - 1) * 10 + f : c \in EvaluationClients, f \in 1..10}
               /\ Cardinality(DOMAIN ret.val) = 200

C3_Witness ==
  /\ ObjectsCall /\ Only(call.groups, "dev") /\ Omitted(call.model_ids)
  /\ Only(call.purposes, "probe")
  /\ ret.status = "ok" /\ Len(ret.val) = 100

\* C4: for the training group alone and no model_ids, the query returns
\* exactly the 200 samples of the 20 training clients x 10 files whatever is
\* given as purposes: 'enroll' alone, 'probe' alone and an unknown label give
\* the same 200 samples and no error.
C4_TrainingIgnoresPurposes ==
  /\ (ObjectsCall /\ Only(call.groups, "world") /\ Omitted(call.model_ids)) =>
       /\ ret.status = "ok"
       /\ Len(ret.val) = 200
       /\ Pairs(ret) = TrainingClients \X (1..10)
  /\ (LegacyCall /\ Only(call.groups, "world") /\ Omitted(call.model_ids)) =>
       /\ ret.status = "ok"
       /\ DOMAIN ret.val = {(c - 1) * 10 + f : c \in TrainingClients, f \in 1..10}
       /\ Cardinality(DOMAIN ret.val) = 200

C4_Witness ==
  /\ ObjectsCall /\ Only(call.groups, "world") /\ Omitted(call.model_ids)
  /\ Only(call.purposes, "bogus")
  /\ ret.status = "ok" /\ Len(ret.val) = 200

\* C5: with groups = 'world' alone, model_ids has no effect: for every valid
\* model_ids (a non-empty collection of ids of 1..40, or one such id) objects
\* returns the samples it returns with model_ids omitted.
C5_ModelIdsNoEffectForWorld ==
  (ObjectsCall /\ Only(call.groups, "world")
     /\ ~Falsy(call.model_ids) /\ Values(call.model_ids) \subseteq 1..40) =>
    /\ ret.status = "ok"
    /\ Pairs(ret) = Pairs(objects(db, None, call.groups, call.purposes))

StemText(c, f) ==
  LET dec(n) == IF n < 10 THEN <<Digits[n + 1]>>
                ELSE <<Digits[(n \div 10) + 1], Digits[(n % 10) + 1]>>
  IN <<"s">> \o dec(c) \o <<"/">> \o dec(f)

\* no directory or extension: None or the empty string
Empty(a) == a.k = "none" \/ a.v = <<>>

\* C7: for an evaluation client c, the query for groups = evaluation,
\* purposes = enroll, model_ids = [c] returns exactly 5 samples, with the
\* per-client file ids {2,4,5,7,9} and the paths 's<c>/<file id>' (no
\* directory, no extension), and the client of each global id is c; for a
\* training client c it returns no sample and no error.
C7_EnrollOfOneModel ==
  \A c \in 1..40 :
    /\ (ObjectsCall /\ Only(call.groups, "dev") /\ Only(call.purposes, "enrol")
          /\ call.model_ids.k = "list" /\ call.model_ids.v = <<c>>) =>
         /\ ret.status = "ok"
         /\ c \in EvaluationClients =>
              /\ Len(ret.val) = 5
              /\ Pairs(ret) = {c} \X {2, 4, 5, 7, 9}
              /\ \A i \in 1..Len(ret.val) :
                   LET f == ret.val[i]
                   IN /\ f.path = StemText(c, f.id - (c - 1) * 10)
                      /\ make_path(f, None, None) = f.path
                      /\ get_client_id_from_file_id(db, f.id) = OkInt(c)
         /\ c \in TrainingClients => Len(ret.val) = 0
    /\ (call.op = "legacy_files" /\ Only(call.groups, "dev")
          /\ Only(call.purposes, "enrol")
          /\ Empty(call.directory) /\ Empty(call.extension)
          /\ call.model_ids.k = "list" /\ call.model_ids.v = <<c>>) =>
         /\ ret.status = "ok"
         /\ c \in EvaluationClients =>
              /\ DOMAIN ret.val = {(c - 1) * 10 + f : f \in {2, 4, 5, 7, 9}}
              /\ \A k \in DOMAIN ret.val :
                   /\ ret.val[k] = StemText(c, k - (c - 1) * 10)
                   /\ legacy_get_client_id_from_file_id(db, k) = OkInt(c)
         /\ c \in TrainingClients => DOMAIN ret.val = {}

C7_Witness ==
  /\ ObjectsCall /\ Only(call.groups, "dev") /\ Only(call.purposes, "enrol")
  /\ call.model_ids.k = "list" /\ call.model_ids.v = <<3>>
  /\ ret.status = "ok" /\ Len(ret.val) = 5
  /\ {ret.val[i].path : i \in 1..5}
       = {<<"s", "3", "/", "2">>, <<"s", "3", "/", "4">>, <<"s", "3", "/", "5">>,
          <<"s", "3", "/", "7">>, <<"s", "3", "/", "9">>}

\* C8: get_client_id_from_file_id returns ((g-1) div 10) + 1 for every
\* global file id g of 1..400 (1 -> 1, 10 -> 1, 11 -> 2, 400 -> 40) and fails
\* for every g outside 1..400, in particular 0 and 401, instead of returning
\* a client id outside 1..40.
C8_ClientFromFileChecksRange ==
  call.op \in {"get_client_id_from_file_id", "legacy_get_client_id_from_file_id"} =>
    /\ (call.file_id \in 1..400 =>
          /\ ret = OkInt(((call.file_id - 1) \div 10) + 1)
          /\ ret.val \in 1..40)
    /\ (call.file_id \notin 1..400 => ret.status # "ok")

\* the labels either vocabulary knows
KnownGroups == {"world", "dev", "training", "evaluation"}
KnownPurposes == {"enrol", "enroll", "probe"}

\* C9: every call of clients, client_ids or objects whose groups hold a
\* label outside the known group labels, whose model_ids hold a value
\* outside 1..40, or (evaluation being among the groups) whose purposes hold
\* a label outside the known purposes, fails as a whole: nothing is
\* returned for the valid part of the selectors.
C9_InvalidSelectorFails ==
  /\ call.op \in {"clients", "client_ids"} =>
       (~(Values(call.groups) \subseteq KnownGroups) => ret.status # "ok")
  /\ ObjectsCall =>
       ((\/ ~(Values(call.groups) \subseteq KnownGroups)
         \/ ~(Values(call.model_ids) \subseteq 1..40)
         \/ /\ "dev" \in RequestedGroups
            /\ ~(Values(call.purposes) \subseteq KnownPurposes))
          => ret.status # "ok")

\* C10: for every client id of 1..40 and per-client file id of 1..10 the
\* global id (client_id-1)*10 + file_id lies in 1..400, splitting it with
\* ((g-1) div 10)+1 and ((g-1) mod 10)+1 gives the pair back, no other pair
\* has the same global id, every id of 1..400 is the global id of its split,
\* and parsing the stem 's<client_id>/<file_id>' gives the pair back.
C10_RoundTrip ==
  /\ (call.op = "File" /\ call.client_id \in 1..40 /\ call.client_file_id \in 1..10) =>
       /\ ret.status = "ok"
       /\ ret.val.id = (call.client_id - 1) * 10 + call.client_file_id
       /\ ret.val.id \in 1..400
       /\ ((ret.val.id - 1) \div 10) + 1 = call.client_id
       /\ ((ret.val.id - 1) % 10) + 1 = call.client_file_id
       /\ get_client_id_from_file_id(db, ret.val.id) = OkInt(call.client_id)
       /\ split_global_id(ret.val.id) = ret
       /\ \A c \in 1..40, f \in 1..10 :
            File(c, f).val.id = ret.val.id
              => c = call.client_id /\ f = call.client_file_id
       /\ ret.val.path = StemText(call.client_id, call.client_file_id)
       /\ parse_path_stem(ret.val.path) = ret
       /\ reverse(<<ret.val.path>>) = OkList(<<ret.val>>)
  /\ (call.op = "split_global_id" /\ call.file_id \in 1..400) =>
       /\ ret.status = "ok"
       /\ ret.val.id = call.file_id
       /\ ret.val.client_id \in 1..40
       /\ ret.val.id - (ret.val.client_id - 1) * 10 \in 1..10
  /\ (call.op = "reverse" /\ ret.status = "ok"
        /\ \E c \in 1..40, f \in 1..10 : call.paths = <<StemText(c, f)>>) =>
       /\ Len(ret.val) = 1
       /\ ret.val[1].path = call.paths[1]
       /\ ret.val[1].client_id \in 1..40

C10_Witness ==
  /\ call.op = "File" /\ call.client_id = 40 /\ call.client_file_id = 10
  /\ ret.status = "ok" /\ ret.val.id = 400
  /\ ret.val.path = <<"s", "4", "0", "/", "1", "0">>
  /\ parse_path_stem(ret.val.path).val.id = 400

\* C11: the group labels 'world' and 'training' are both accepted and select
\* the same clients, 'dev' and 'evaluation' are both accepted and select the
\* same clients, and the purpose labels 'enrol' and 'enroll' are both
\* accepted and select the same files; none of them is rejected as unknown.
C11_AliasesAccepted ==
  /\ (call.op \in {"client_ids", "model_ids", "legacy_clients", "legacy_models"}
        /\ call.groups.k = "str") =>
       /\ call.groups.v \in {"world", "training"} =>
            ret.status = "ok" /\ Range(ret.val) = TrainingClients
       /\ call.groups.v \in {"dev", "evaluation"} =>
            ret.status = "ok" /\ Range(ret.val) = EvaluationClients
  /\ (ObjectsCall /\ call.groups.k = "str" /\ Omitted(call.model_ids)
        /\ Omitted(call.purposes)) =>
       /\ call.groups.v \in {"world", "training"} =>
            ret.status = "ok" /\ Pairs(ret) = TrainingClients \X (1..10)
       /\ call.groups.v \in {"dev", "evaluation"} =>
            ret.status = "ok" /\ Pairs(ret) = EvaluationClients \X (1..10)
  /\ (ObjectsCall /\ Only(call.groups, "dev") /\ Omitted(call.model_ids)
        /\ call.purposes.k = "str" /\ call.purposes.v \in {"enrol", "enroll"}) =>
       ret.status = "ok" /\ Pairs(ret) = EvaluationClients \X EnrollFiles

\* the decimal text of an int of -99..99
SignedText(n) ==
  LET dec(m) == IF m < 10 THEN <<Digits[m + 1]>>
                ELSE <<Digits[(m \div 10) + 1], Digits[(m % 10) + 1]>>
  IN IF n < 0 THEN <<"-">> \o dec(0 - n) ELSE dec(n)

\* C12: constructing the File of (client_id, per-client file id) fails
\* (the AssertionError of the constructor's assert) whenever the per-client
\* file id is outside 1..10, and succeeds with the stem
\* 's<client_id>/<file id>' and the global id (client_id-1)*10 + file id
\* whenever it is inside 1..10, for any client id: the client id is not
\* range-checked.
C12_FileChecksFileIdOnly ==
  call.op = "File" =>
    /\ call.client_file_id \notin 1..10 => ret = Raise("AssertionError")
    /\ call.client_file_id \in 1..10 =>
         /\ ret.status = "ok"
         /\ ret.val.client_id = call.client_id
         /\ ret.val.id = (call.client_id - 1) * 10 + call.client_file_id
         /\ ret.val.path = <<"s">> \o SignedText(call.client_id) \o <<"/">>
                             \o SignedText(call.client_file_id)

C12_Witness ==
  /\ call.op = "File" /\ call.client_id = 41 /\ call.client_file_id = 10
  /\ ret.status = "ok" /\ ret.val.id = 410
  /\ ret.val.path = <<"s", "4", "1", "/", "1", "0">>

\* the path a result of the former objects or files stores under key k
StoredPath(k) == IF call.op = "legacy_files" THEN ret.val[k] ELSE ret.val[k][1]

\* C13: for every combination of model_ids, groups, purposes, directory and
\* extension, the former objects and files fail exactly when objects of
\* query.py fails on the same selectors; otherwise the keys of their
\* dictionary are the ids of the Files objects returns, and the path under
\* each key is make_path(directory, extension) of the File with that id.
C13_EnginesEquivalent ==
  LegacyCall =>
    LET o == objects(db, call.model_ids, call.groups, call.purposes)
    IN /\ (ret.status = "ok") <=> (o.status = "ok")
       /\ ret.status # "ok" => ret.status = o.status
       /\ ret.status = "ok" =>
            /\ DOMAIN ret.val = FileIds(o)
            /\ \A i \in 1..Len(o.val) :
                 StoredPath(o.val[i].id)
                   = make_path(o.val[i], call.directory, call.extension)

C13_Witness ==
  /\ call.op = "legacy_files"
  /\ call.directory = PyStr(<<"d">>)
  /\ call.extension = PyStr(<<".", "p", "g", "m">>)
  /\ Only(call.model_ids, 3) /\ Only(call.groups, "dev")
  /\ Only(call.purposes, "enrol")
  /\ ret.status = "ok"
  /\ DOMAIN ret.val = {22, 24, 25, 27, 29}
  /\ ret.val[22] = <<"d", "/", "s", "3", "/", "2", ".", "p", "g", "m">>
  /\ FileIds(objects(db, call.model_ids, call.groups, call.purposes))
       = {22, 24, 25, 27, 29}

\* C14: whatever calls of clients, client_ids, models, model_ids and objects
\* were made on the instance, failed calls included, its partition
\* configuration is the one it was constructed with: the training clients
\* are the 20 literal ids, the enroll files {2,4,5,7,9}, the clients 1..40
\* and the files 1..10; so the result a query holds is the result the same
\* query gives on a newly constructed instance.
C14_ConfigurationUnchanged ==
  /\ db.m_training_clients = TrainingClients
  /\ Cardinality(db.m_training_clients) = 20
  /\ db.m_enrol_files = {2, 4, 5, 7, 9}
  /\ db.m_client_ids = 1..40
  /\ db.m_files = 1..10
  /\ db.m_groups = <<"world", "dev">>
  /\ ObjectsCall =>
       ret = objects(NewDatabase, call.model_ids, call.groups, call.purposes)
  /\ call.op = "client_ids" => ret = client_ids(NewDatabase, call.groups)

\* a failed objects call has been made, and the configuration is still there
C14_Witness ==
  /\ ObjectsCall /\ ret.status = "RuntimeError"
  /\ Only(call.model_ids, 41)
  /\ db.m_client_ids = 1..40
  /\ db.m_training_clients = TrainingClients

\* the global ids of the files checkfiles finds with the directory and the
\* extension of the call: those stored, when the directory is d (or d/) and
\* the extension .pgm, none otherwise
StoredIds ==
  IF call.directory.v \in {<<"d">>, <<"d", "/">>}
       /\ call.extension.v = <<".", "p", "g", "m">>
  THEN (1..400) \ call.missing ELSE {}

\* C15: whatever files exist, checkfiles returns the exit status 0; each of
\* the 400 files is either found or not found, never both (the two counts
\* sum to 400); the files not found are those that do not exist, and each
\* of them is reported.
C15_CheckfilesNeverAborts ==
  call.op = "checkfiles" =>
    /\ ret.status = "ok"
    /\ ret.val.code = 0
    /\ DOMAIN ret.val.good \cap DOMAIN ret.val.bad = {}
    /\ DOMAIN ret.val.good \cup DOMAIN ret.val.bad = 1..400
    /\ Cardinality(DOMAIN ret.val.good) + Cardinality(DOMAIN ret.val.bad) = 400
    /\ DOMAIN ret.val.good = StoredIds
    /\ \A id \in DOMAIN ret.val.bad :
         \E i \in 1..Len(ret.val.output) :
           /\ ret.val.output[i].text = "Cannot find file"
           /\ ret.val.output[i].path = ret.val.bad[id]
    /\ DOMAIN ret.val.bad # {} =>
         /\ Len(ret.val.output) = Cardinality(DOMAIN ret.val.bad) + 1
         /\ ret.val.output[Len(ret.val.output)].count
              = Cardinality(DOMAIN ret.val.bad)
         /\ ret.val.output[Len(ret.val.output)].total = 400
    /\ DOMAIN ret.val.bad = {} => ret.val.output = <<>>

\* three files are missing: checkfiles reports them and returns 0
C15_Witness ==
  /\ call.op = "checkfiles" /\ call.missing = {1, 22, 400}
  /\ call.directory = PyStr(<<"d">>)
  /\ call.extension = PyStr(<<".", "p", "g", "m">>)
  /\ ret.status = "ok" /\ ret.val.code = 0
  /\ DOMAIN ret.val.bad = {1, 22, 400}
  /\ Cardinality(DOMAIN ret.val.good) = 397
  /\ ret.val.output[2].path
       = <<"d", "/", "s", "3", "/", "2", ".", "p", "g", "m">>

\* the selector is the empty list
EmptyList(a) == a.k = "list" /\ a.v = <<>>
\* the selector is the empty list or the scalar 0
EmptyOrZero(a) == EmptyList(a) \/ (a.k = "int" /\ a.v = 0)

\* C16: a selector given as a falsy value is treated as an omitted one:
\* groups = [] gives the result of both groups, purposes = [] that of both
\* purposes, model_ids = [] or the scalar 0 that of all 40 model ids; so
\* objects(model_ids=[]) and objects(model_ids=0) return the 400 samples of
\* objects() and raise no error, although 0 is outside 1..40.
C16_FalsyIsOmitted ==
  /\ ObjectsCall =>
       /\ EmptyList(call.groups) =>
            /\ ret = objects(db, call.model_ids, None, call.purposes)
            /\ ret = objects(db, call.model_ids, PyList(<<"world", "dev">>),
                             call.purposes)
       /\ EmptyList(call.purposes) =>
            /\ ret = objects(db, call.model_ids, call.groups, None)
            /\ ret = objects(db, call.model_ids, call.groups,
                             PyList(<<"enrol", "probe">>))
       /\ EmptyOrZero(call.model_ids) =>
            /\ ret = objects(db, None, call.groups, call.purposes)
            /\ ret = objects(db, PyList([i \in 1..40 |-> i]), call.groups,
                             call.purposes)
       /\ (EmptyOrZero(call.model_ids) /\ Omitted(call.groups)
             /\ Omitted(call.purposes)) =>
            /\ ret.status = "ok"
            /\ Len(ret.val) = 400
            /\ FileIds(ret) = 1..400
  /\ (call.op \in {"client_ids", "model_ids"} /\ EmptyList(call.groups)) =>
       /\ ret = client_ids(db, None)
       /\ ret.status = "ok" /\ Range(ret.val) = 1..40

C16_Witness ==
  /\ ObjectsCall /\ call.model_ids.k = "int" /\ call.model_ids.v = 0
  /\ Omitted(call.groups) /\ Omitted(call.purposes)
  /\ ret.status = "ok" /\ Len(ret.val) = 400

\* C17: in the list of every successful objects call (any valid groups,
\* purposes and model_ids, repeated labels or ids included) no two Files
\* have the same global id, the client of every File belongs to one of the
\* requested groups, every per-client file id is in 1..10, a file id of
\* {2,4,5,7,9} appears only if enrol is among the effective purposes and a
\* file id of {1,3,6,8,10} only if probe is; so the list never has more
\* than 400 Files.
C17_SamplesWellFormed ==
  (ObjectsCall /\ ret.status = "ok") =>
    /\ Cardinality(FileIds(ret)) = Len(ret.val)
    /\ Len(ret.val) <= 400
    /\ \A p \in Pairs(ret) :
         /\ p[1] \in GroupClients
         /\ p[2] \in 1..10
         /\ p[2] \in {2, 4, 5, 7, 9} => "enrol" \in RequestedPurposes
         /\ p[2] \in {1, 3, 6, 8, 10} => "probe" \in RequestedPurposes

\* a successful call with a repeated label
C17_Witness ==
  /\ ObjectsCall /\ ret.status = "ok"
  /\ call.groups.k = "list" /\ call.groups.v = <<"dev", "dev">>
  /\ Only(call.model_ids, 3) /\ Omitted(call.purposes)
  /\ Len(ret.val) = 105

====
